---------------------------- MODULE Spec2Model ----------------------------
(***************************************************************************)
(* Outlook CSV -> contacts pipeline (app_streamlit_outlook_extract.py).    *)
(*                                                                         *)
(* Text is modelled as a sequence of one-character strings, so that the    *)
(* regular-expression harvest, the date parser, the name/company/country   *)
(* heuristics and the timestamp formatting are computed character by       *)
(* character as the Python code computes them.  The country names of       *)
(* COUNTRY_MAP, the exclusion reason and the exception names are never     *)
(* inspected character-wise by the code and are kept as atomic strings.    *)
(***************************************************************************)
EXTENDS Integers, Sequences, FiniteSets, TLC

(***************************************************************************)
(* Characters                                                              *)
(***************************************************************************)
LowerLetters ==
  <<"a","b","c","d","e","f","g","h","i","j","k","l","m",
    "n","o","p","q","r","s","t","u","v","w","x","y","z">>

UpperLetters ==
  <<"A","B","C","D","E","F","G","H","I","J","K","L","M",
    "N","O","P","Q","R","S","T","U","V","W","X","Y","Z">>

DigitChars == <<"0","1","2","3","4","5","6","7","8","9">>

\* Every character of the model, in code-point order (Python compares
\* strings by code point).
CodePointOrder ==
  <<"\n", " ", "%", "(", ")", "+", "-", ".", "/">> \o DigitChars \o
  <<":", ";", "@">> \o UpperLetters \o <<"^", "_">> \o LowerLetters \o
  <<"Í", "Ñ", "í", "ñ">>

Range(f) == { f[i] : i \in DOMAIN f }

AllChars == Range(CodePointOrder)

LowerSet == Range(LowerLetters)

UpperSet == Range(UpperLetters)

DigitSet == Range(DigitChars)

\* [A-Za-z] of EMAIL_REGEX
AsciiLetters == LowerSet \cup UpperSet

\* str.isalpha on one character
AlphaSet == AsciiLetters \cup {"Í", "Ñ", "í", "ñ"}

\* The cased letters of the model: str.lower and str.upper map the k-th of
\* one to the k-th of the other
CasedLower == LowerLetters \o <<"í", "ñ">>

CasedUpper == UpperLetters \o <<"Í", "Ñ">>

\* [A-Za-z0-9._%+\-] of EMAIL_REGEX
LocalChars == AsciiLetters \cup DigitSet \cup {".", "_", "%", "+", "-"}

\* [A-Za-z0-9.\-] of EMAIL_REGEX
DomainChars == AsciiLetters \cup DigitSet \cup {".", "-"}

\* \s of the strptime regex, and what str.strip removes
SpaceSet == {" ", "\n"}

IndexOf(seq, c) == CHOOSE i \in DOMAIN seq : seq[i] = c

CharCode == [c \in AllChars |-> IndexOf(CodePointOrder, c)]

CharLower ==
  [c \in AllChars |->
     IF c \in Range(CasedUpper) THEN CasedLower[IndexOf(CasedUpper, c)] ELSE c]

CharUpper ==
  [c \in AllChars |->
     IF c \in Range(CasedLower) THEN CasedUpper[IndexOf(CasedLower, c)] ELSE c]

DigitVal == [c \in DigitSet |-> IndexOf(DigitChars, c) - 1]

(***************************************************************************)
(* str methods                                                             *)
(***************************************************************************)
str_lower(s) == [i \in 1..Len(s) |-> CharLower[s[i]]]

str_upper(s) == [i \in 1..Len(s) |-> CharUpper[s[i]]]

\* str.capitalize: first character upper-cased, the rest lower-cased
str_capitalize(s) ==
  [i \in 1..Len(s) |-> IF i = 1 THEN CharUpper[s[i]] ELSE CharLower[s[i]]]

str_replace(s, old, new) == [i \in 1..Len(s) |-> IF s[i] = old THEN new ELSE s[i]]

str_startswith(s, p) == Len(p) <= Len(s) /\ SubSeq(s, 1, Len(p)) = p

str_endswith(s, p) == Len(p) <= Len(s) /\ SubSeq(s, Len(s) - Len(p) + 1, Len(s)) = p

\* str.isdigit: non-empty and digits only
str_isdigit(s) == Len(s) > 0 /\ \A i \in 1..Len(s) : s[i] \in DigitSet

\* s.split(sep) for a one-character separator: always at least one part
RECURSIVE SplitFrom(_, _, _, _)
SplitFrom(s, sep, start, i) ==
  IF i > Len(s) THEN << SubSeq(s, start, Len(s)) >>
  ELSE IF s[i] = sep
       THEN << SubSeq(s, start, i - 1) >> \o SplitFrom(s, sep, i + 1, i + 1)
       ELSE SplitFrom(s, sep, start, i + 1)

str_split(s, sep) == SplitFrom(s, sep, 1, 1)

\* str.strip
RECURSIVE LStrip(_)
LStrip(s) == IF Len(s) > 0 /\ s[1] \in SpaceSet THEN LStrip(Tail(s)) ELSE s

RECURSIVE RStrip(_)
RStrip(s) ==
  IF Len(s) > 0 /\ s[Len(s)] \in SpaceSet THEN RStrip(SubSeq(s, 1, Len(s) - 1)) ELSE s

str_strip(s) == RStrip(LStrip(s))

\* s < t on Python strings: lexicographic by code point
RECURSIVE StrLess(_, _)
StrLess(s, t) ==
  IF Len(t) = 0 THEN FALSE
  ELSE IF Len(s) = 0 THEN TRUE
  ELSE IF s[1] = t[1] THEN StrLess(Tail(s), Tail(t))
  ELSE CharCode[s[1]] < CharCode[t[1]]

(***************************************************************************)
(* Module-level tables of the program                                      *)
(***************************************************************************)
PERSONAL_DOMAINS ==
  { <<"g","m","a","i","l",".","c","o","m">>,
     <<"h","o","t","m","a","i","l",".","c","o","m">>,
     <<"o","u","t","l","o","o","k",".","c","o","m">>,
     <<"y","a","h","o","o",".","c","o","m">>,
     <<"i","c","l","o","u","d",".","c","o","m">>,
     <<"p","r","o","t","o","n",".","m","e">>,
     <<"l","i","v","e",".","c","o","m">>,
     <<"m","s","n",".","c","o","m">> }

COMPANY_SUFFIXES ==
  << <<"c","o","n","s","u","l","t","i","n","g">>,
     <<"c","o","n","s","u","l","t","o","r","e","s">>,
     <<"c","o","n","s","u","l","t","o","r","a">>,
     <<"s","o","l","u","t","i","o","n","s">>,
     <<"s","o","l","u","c","i","o","n","e","s">>,
     <<"g","r","o","u","p">>,
     <<"g","r","u","p","o">>,
     <<"c","o","r","p">>,
     <<"c","o","r","p","o","r","a","t","i","o","n">>,
     <<"c","o","m","p","a","n","y">>,
     <<"c","o","m","p","a","n","i","a">>,
     <<"c","o","m","p","a","ñ","i","a">>,
     <<"c","o">>,
     <<"l","t","d","a">>,
     <<"l","t","d">>,
     <<"l","l","c">>,
     <<"s","r","l">>,
     <<"s","a">>,
     <<"s","a","a">>,
     <<"s","a","c">>,
     <<"i","n","c">>,
     <<"a","g">>,
     <<"g","m","b","h">>,
     <<"b","v">>,
     <<"p","l","c">>,
     <<"p","t","y">>,
     <<"s","a","s">> >>

DEFAULT_ROLE_PREFIXES ==
  << <<"v","e","n","t","a","s">>,
     <<"s","a","l","e","s">>,
     <<"i","n","f","o">>,
     <<"c","o","n","t","a","c","t">>,
     <<"a","d","m","i","n">>,
     <<"h","r">>,
     <<"h","e","l","l","o">>,
     <<"s","u","p","p","o","r","t">>,
     <<"m","a","r","k","e","t","i","n","g">>,
     <<"b","i","l","l","i","n","g">>,
     <<"a","c","c","o","u","n","t","s">>,
     <<"c","o","m","p","r","a","s">>,
     <<"n","o","r","e","p","l","y">>,
     <<"n","o","-","r","e","p","l","y">>,
     <<"n","o","r","e","s","p","o","n","d","e","r">>,
     <<"n","o","-","r","e","s","p","o","n","d","e","r">> >>

\* COUNTRY_MAP as the sequence of its (key, value) pairs; keys are unique
COUNTRY_MAP ==
  << <<<<"a","r">>, "Argentina">>,
     <<<<"b","o">>, "Bolivia">>,
     <<<<"b","r">>, "Brasil">>,
     <<<<"c","l">>, "Chile">>,
     <<<<"c","o">>, "Colombia">>,
     <<<<"c","r">>, "Costa Rica">>,
     <<<<"d","o">>, "República Dominicana">>,
     <<<<"e","c">>, "Ecuador">>,
     <<<<"e","s">>, "España">>,
     <<<<"g","t">>, "Guatemala">>,
     <<<<"h","n">>, "Honduras">>,
     <<<<"m","x">>, "México">>,
     <<<<"n","i">>, "Nicaragua">>,
     <<<<"p","a">>, "Panamá">>,
     <<<<"p","e">>, "Perú">>,
     <<<<"p","y">>, "Paraguay">>,
     <<<<"s","v">>, "El Salvador">>,
     <<<<"u","y">>, "Uruguay">>,
     <<<<"v","e">>, "Venezuela">>,
     <<<<"p","r">>, "Puerto Rico">> >>

S_Particular == <<"P","a","r","t","i","c","u","l","a","r">>

\* COUNTRY_MAP.get(key, "")
CountryGet(key) ==
  IF \E i \in DOMAIN COUNTRY_MAP : COUNTRY_MAP[i][1] = key
  THEN COUNTRY_MAP[CHOOSE i \in DOMAIN COUNTRY_MAP : COUNTRY_MAP[i][1] = key][2]
  ELSE ""

(***************************************************************************)
(* EMAIL_REGEX.finditer                                                    *)
(*   ([A-Za-z0-9._%+\-]+@[A-Za-z0-9.\-]+\.[A-Za-z]{2,})                    *)
(***************************************************************************)
\* Last index of the maximal run of characters of cls starting at i
\* (i - 1 when s[i] is not in cls).
RECURSIVE RunEnd(_, _, _)
RunEnd(s, i, cls) ==
  IF i <= Len(s) /\ s[i] \in cls THEN RunEnd(s, i + 1, cls) ELSE i - 1

SetMax(S) == CHOOSE x \in S : \A y \in S : y <= x

SetMin(S) == CHOOSE x \in S : \A y \in S : x <= y

\* The dots of the domain run s[k..r] at which \.[A-Za-z]{2,} can match
\* with a non-empty domain before it
TldDots(s, k, r) ==
  { p \in (k + 1)..r :
      /\ s[p] = "."
      /\ p + 2 <= Len(s)
      /\ s[p + 1] \in AsciiLetters
      /\ s[p + 2] \in AsciiLetters }

\* The greedy domain run backtracks to its last such dot; the letters after
\* it are taken greedily.  0 when there is no such dot.
TldEnd(s, P) == IF P = {} THEN 0 ELSE RunEnd(s, SetMax(P) + 1, AsciiLetters)

\* End of the match whose local part is s[i..j], the maximal run of local
\* characters from i (the class excludes "@", so no shorter local part can
\* match); 0 when there is no match.
MatchAfterLocal(s, i, j) ==
  IF j < i \/ j + 1 > Len(s) THEN 0
  ELSE IF s[j + 1] # "@" THEN 0
  ELSE TldEnd(s, TldDots(s, j + 2, RunEnd(s, j + 2, DomainChars)))

\* End index of the match that starts at i, or 0 when there is none
EmailMatchEnd(s, i) == MatchAfterLocal(s, i, RunEnd(s, i, LocalChars))

\* The non-overlapping matches of the text from position i on, lower-cased
\* (m.group(1).lower()).  e is the end of the match at i.  A start inside a
\* local-part run that did not match cannot match either, so the scan
\* resumes after the run.
RECURSIVE FindEmailsFrom(_, _)
RECURSIVE EmitMatch(_, _, _)
EmitMatch(s, i, e) ==
  IF e = 0 THEN FindEmailsFrom(s, RunEnd(s, i, LocalChars) + 1)
  ELSE { str_lower(SubSeq(s, i, e)) } \cup FindEmailsFrom(s, e + 1)

FindEmailsFrom(s, i) ==
  IF i > Len(s) THEN {}
  ELSE IF s[i] \notin LocalChars THEN FindEmailsFrom(s, i + 1)
  ELSE EmitMatch(s, i, EmailMatchEnd(s, i))

FindEmails(s) == FindEmailsFrom(s, 1)

(***************************************************************************)
(* Identity heuristics                                                     *)
(***************************************************************************)
\* parts[-2], parts[-1] if len(parts) >= 2, else parts[0], ""
LastTwo(parts) ==
  IF Len(parts) >= 2
  THEN << parts[Len(parts) - 1], parts[Len(parts)] >>
  ELSE << parts[1], << >> >>

\* split_domain(domain) -> <<sld, tld>>
split_domain(domain) == LastTwo(str_split(str_lower(domain), "."))

\* core.upper() if len(core) <= 3 else core.capitalize()
ShortUpper(s) == IF Len(s) <= 3 THEN str_upper(s) ELSE str_capitalize(s)

\* Lines 89-94: the label for the part of sld before the suffix
CompanyOfCore(core, suf) ==
  IF Len(core) > 0 /\ core[Len(core)] \in AlphaSet
  THEN str_strip(ShortUpper(core) \o <<" ">> \o str_capitalize(suf))
  ELSE str_strip(str_capitalize(suf))

CompanyOfSuffix(sld, suf) == CompanyOfCore(SubSeq(sld, 1, Len(sld) - Len(suf)), suf)

\* Lines 87-95: hit holds the positions of the suffixes sld ends with; the
\* loop returns at the first of them
CompanyOfHits(sld, hit) ==
  IF hit = {} THEN ShortUpper(sld)
  ELSE CompanyOfSuffix(sld, COMPANY_SUFFIXES[SetMin(hit)])

CompanyOfSld(sld) ==
  CompanyOfHits(sld, { i \in DOMAIN COMPANY_SUFFIXES : str_endswith(sld, COMPANY_SUFFIXES[i]) })

\* Lines 84-86, on the lower-cased domain
CompanyOfLower(d) ==
  IF d \in PERSONAL_DOMAINS THEN S_Particular ELSE CompanyOfSld(split_domain(d)[1])

prettify_company_from_domain(domain) == CompanyOfLower(str_lower(domain))

NameToken(t) == Len(t) > 0 /\ ~ str_isdigit(t)

\* Lines 100-101
NamesOfTokens(tokens) ==
  << IF Len(tokens) > 0 THEN str_capitalize(tokens[1]) ELSE << >>,
     IF Len(tokens) >= 2 THEN str_capitalize(tokens[Len(tokens)]) ELSE << >> >>

\* infer_name_parts(local_part) -> <<nombre, apellido>>
infer_name_parts(local_part) ==
  NamesOfTokens(
    SelectSeq(str_split(str_replace(str_replace(str_lower(local_part), "-", "."), "_", "."), "."),
              NameToken))

\* len(label) == 2 and label.isalpha()
TwoLetters(label) == Len(label) = 2 /\ \A i \in 1..2 : label[i] \in AlphaSet

\* Lines 126-137 on the labels of the domain
CountryOfLabels(labels) ==
  IF Len(labels) < 2 THEN ""
  ELSE IF TwoLetters(labels[Len(labels)]) THEN CountryGet(labels[Len(labels)])
  ELSE IF TwoLetters(labels[Len(labels) - 1]) THEN CountryGet(labels[Len(labels) - 1])
  ELSE ""

infer_country_from_domain(domain) ==
  IF Len(domain) = 0 THEN "" ELSE CountryOfLabels(str_split(str_lower(domain), "."))

\* em.split("@", 1): the text before and after the first "@"
EmailLocal(em) == SubSeq(em, 1, SetMin({ i \in DOMAIN em : em[i] = "@" }) - 1)

EmailDomain(em) == SubSeq(em, SetMin({ i \in DOMAIN em : em[i] = "@" }) + 1, Len(em))

(***************************************************************************)
(* datetime                                                                *)
(*                                                                         *)
(* A datetime is a record: days is the proleptic Gregorian day number      *)
(* (days since 1970-01-01), secs the second of the day, aware whether it   *)
(* carries a UTC offset, off that offset in minutes.  None is the record   *)
(* with some = FALSE.                                                      *)
(***************************************************************************)
None == [some |-> FALSE, days |-> 0, secs |-> 0, aware |-> FALSE, off |-> 0]

\* Python truthiness of x, where x is None or a datetime
Truthy(dt) == dt.some

IsLeap(y) == (y % 4 = 0 /\ y % 100 # 0) \/ y % 400 = 0

DaysInMonth(y, m) ==
  IF m = 2 THEN (IF IsLeap(y) THEN 29 ELSE 28)
  ELSE IF m \in {4, 6, 9, 11} THEN 30 ELSE 31

\* Day number from the 400-year era, the year of the era and the day of the
\* year (years starting in March)
DaysOfEra(era, yoe, doy) ==
  era * 146097 + yoe * 365 + yoe \div 4 - yoe \div 100 + doy - 719468

DaysOfShifted(yy, mp, d) ==
  DaysOfEra(yy \div 400, yy % 400, (153 * mp + 2) \div 5 + d - 1)

\* date(y, m, d).toordinal(), shifted so that 1970-01-01 is day 0
DaysFromCivil(y, m, d) ==
  DaysOfShifted(IF m <= 2 THEN y - 1 ELSE y, IF m > 2 THEN m - 3 ELSE m + 9, d)

CivilOfMonth(y0, m, d) == << y0 + (IF m <= 2 THEN 1 ELSE 0), m, d >>

CivilOfMp(y0, doy, mp) ==
  CivilOfMonth(y0, IF mp < 10 THEN mp + 3 ELSE mp - 9, doy - (153 * mp + 2) \div 5 + 1)

CivilOfDoy(y0, doy) == CivilOfMp(y0, doy, (5 * doy + 2) \div 153)

CivilOfYoe(era, doe, yoe) ==
  CivilOfDoy(yoe + era * 400, doe - (365 * yoe + yoe \div 4 - yoe \div 100))

CivilOfDoe(era, doe) ==
  CivilOfYoe(era, doe, (doe - doe \div 1460 + doe \div 36524 - doe \div 146096) \div 365)

CivilOfZ(z) == CivilOfDoe(z \div 146097, z % 146097)

\* date.fromordinal: <<year, month, day>> of a day number
CivilFromDays(days) == CivilOfZ(days + 719468)

\* datetime(y, m, d, H, M, S[, tzinfo]); the constructor's ValueError is None
\* here, which is what every caller turns it into.
MakeDateTime(y, m, d, H, M, S, aware, off) ==
  IF /\ y \in 1..9999 /\ m \in 1..12 /\ d \in 1..DaysInMonth(y, m)
     /\ H \in 0..23 /\ M \in 0..59 /\ S \in 0..59
  THEN [some |-> TRUE, days |-> DaysFromCivil(y, m, d),
        secs |-> H * 3600 + M * 60 + S, aware |-> aware, off |-> off]
  ELSE None

\* dt - timedelta(days=n)
MinusDays(dt, n) == [dt EXCEPT !.days = dt.days - n]

\* The instant of an aware datetime in UTC, as <<day, second of day>>
UtcKey(dt) ==
  << dt.days + (dt.secs - dt.off * 60) \div 86400, (dt.secs - dt.off * 60) % 86400 >>

\* What rich comparison of two datetimes orders by: the local fields of
\* naive ones, the UTC instants of aware ones.
OrderKey(dt) == IF dt.aware THEN UtcKey(dt) ELSE << dt.days, dt.secs >>

\* a > b, a >= b raise TypeError when exactly one of them is aware
CompareRaises(a, b) == a.aware # b.aware

KeyGreater(ka, kb) == ka[1] > kb[1] \/ (ka[1] = kb[1] /\ ka[2] > kb[2])

\* a > b
DtGreater(a, b) == KeyGreater(OrderKey(a), OrderKey(b))

\* a >= b
DtGreaterEq(a, b) == ~ KeyGreater(OrderKey(b), OrderKey(a))

(***************************************************************************)
(* datetime.strptime, character by character                               *)
(***************************************************************************)
DATE_FORMATS ==
  << << "%m", "/", "%d", "/", "%Y", " ", "%I", ":", "%M", ":", "%S", " ", "%p" >>,
     << "%m", "/", "%d", "/", "%Y", " ", "%H", ":", "%M" >>,
     << "%d", "/", "%m", "/", "%Y", " ", "%H", ":", "%M" >>,
     << "%d", "/", "%m", "/", "%Y", " ", "%I", ":", "%M", ":", "%S", " ", "%p" >>,
     << "%Y", "-", "%m", "-", "%d", " ", "%H", ":", "%M", ":", "%S" >>,
     << "%Y", "-", "%m", "-", "%d" >> >>

NumDirectives == {"%m", "%d", "%H", "%I", "%M", "%S"}

\* The values the two-digit alternatives of a directive's regex accept
TwoDigitRange(dir) ==
  CASE dir = "%m" -> 1..12
    [] dir = "%d" -> 1..31
    [] dir = "%H" -> 0..23
    [] dir = "%I" -> 1..12
    [] dir = "%M" -> 0..59
    [] dir = "%S" -> 0..61

\* ... and its one-digit alternative
OneDigitRange(dir) == IF dir \in {"%m", "%d", "%I"} THEN 1..9 ELSE 0..9

IsDigitAt(s, i) == i >= 1 /\ i <= Len(s) /\ s[i] \in DigitSet

Num2(s, i) == 10 * DigitVal[s[i]] + DigitVal[s[i + 1]]

Num4(s, i) == 100 * Num2(s, i) + Num2(s, i + 2)

\* <<value, next position>> of a numeric directive at position i; the next
\* position is i when the directive does not match.  The regex tries the
\* two-digit alternatives first; every directive of DATE_FORMATS is followed
\* by a non-digit literal or the end, so backtracking to the shorter
\* alternative never rescues a match.  %d also accepts a space and a digit.
ReadNum(s, i, dir) ==
  IF IsDigitAt(s, i) /\ IsDigitAt(s, i + 1) /\ Num2(s, i) \in TwoDigitRange(dir)
  THEN << Num2(s, i), i + 2 >>
  ELSE IF IsDigitAt(s, i) /\ DigitVal[s[i]] \in OneDigitRange(dir)
  THEN << DigitVal[s[i]], i + 1 >>
  ELSE IF dir = "%d" /\ i <= Len(s) /\ s[i] = " " /\ IsDigitAt(s, i + 1)
          /\ DigitVal[s[i + 1]] \in 1..9
  THEN << DigitVal[s[i + 1]], i + 2 >>
  ELSE << 0, i >>

StrpFail == [ok |-> FALSE, f |-> << >>]

StrpStart == [d \in NumDirectives \cup {"%Y"} |-> 0] @@ [x \in {"%p"} |-> ""]

\* Match format fmt from its k-th element against s from position i; f holds
\* the fields read so far.  A blank of the format is \s+; %p is AM or PM in
\* any case; %Y is four digits; the whole text must be consumed
\* ("unconverted data remains" otherwise).
RECURSIVE StrpMatch(_, _, _, _, _)
RECURSIVE StrpBlank(_, _, _, _, _, _)
RECURSIVE StrpNum(_, _, _, _, _, _)
StrpBlank(fmt, k, s, i, f, e) ==
  IF e < i THEN StrpFail ELSE StrpMatch(fmt, k + 1, s, e + 1, f)

StrpNum(fmt, k, s, i, f, r) ==
  IF r[2] = i THEN StrpFail
  ELSE StrpMatch(fmt, k + 1, s, r[2], [f EXCEPT ![fmt[k]] = r[1]])

StrpMatch(fmt, k, s, i, f) ==
  IF k > Len(fmt) THEN (IF i = Len(s) + 1 THEN [ok |-> TRUE, f |-> f] ELSE StrpFail)
  ELSE IF fmt[k] = " " THEN StrpBlank(fmt, k, s, i, f, RunEnd(s, i, SpaceSet))
  ELSE IF fmt[k] = "%p"
  THEN IF i + 1 <= Len(s) /\ str_lower(SubSeq(s, i, i + 1)) \in { <<"a","m">>, <<"p","m">> }
       THEN StrpMatch(fmt, k + 1, s, i + 2, [f EXCEPT !["%p"] = CharLower[s[i]]])
       ELSE StrpFail
  ELSE IF fmt[k] = "%Y"
  THEN IF \A j \in i..(i + 3) : IsDigitAt(s, j)
       THEN StrpMatch(fmt, k + 1, s, i + 4, [f EXCEPT !["%Y"] = Num4(s, i)])
       ELSE StrpFail
  ELSE IF fmt[k] \in NumDirectives THEN StrpNum(fmt, k, s, i, f, ReadNum(s, i, fmt[k]))
  ELSE IF i <= Len(s) /\ s[i] = fmt[k] THEN StrpMatch(fmt, k + 1, s, i + 1, f)
  ELSE StrpFail

\* The hour of a 12-hour clock reading: 12 AM is 0, 12 PM is 12
Hour12(h, p) ==
  IF p = "p" THEN (IF h = 12 THEN 12 ELSE h + 12) ELSE (IF h = 12 THEN 0 ELSE h)

\* The datetime of a match r; twelve tells that the format has %I
DateOfMatch(r, twelve) ==
  IF r.ok
  THEN MakeDateTime(r.f["%Y"], r.f["%m"], r.f["%d"],
                    IF twelve THEN Hour12(r.f["%I"], r.f["%p"]) ELSE r.f["%H"],
                    r.f["%M"], r.f["%S"], FALSE, 0)
  ELSE None

\* datetime.strptime(s, fmt), None for ValueError
strptime(s, fmt) ==
  DateOfMatch(StrpMatch(fmt, 1, s, 1, StrpStart), \E k \in DOMAIN fmt : fmt[k] = "%I")

(***************************************************************************)
(* datetime.fromisoformat, for the forms every Python 3 version accepts:   *)
(*   YYYY-MM-DD[*HH[:MM[:SS]][(+|-)HH:MM]]                                 *)
(* (no fractional seconds).  Fields are exactly two digits wide.           *)
(***************************************************************************)
IsoDateOk(s) ==
  /\ Len(s) >= 10
  /\ \A j \in {1, 2, 3, 4, 6, 7, 9, 10} : s[j] \in DigitSet
  /\ s[5] = "-" /\ s[8] = "-"

\* Where the offset of the time part t starts (past the end when it has none)
IsoCut(t) ==
  IF \E j \in 1..Len(t) : t[j] \in {"+", "-"}
  THEN SetMin({ j \in 1..Len(t) : t[j] \in {"+", "-"} })
  ELSE Len(t) + 1

\* HH, HH:MM or HH:MM:SS
IsoHmsOk(hms) ==
  /\ Len(hms) \in {2, 5, 8}
  /\ \A j \in 1..Len(hms) : IF j \in {3, 6} THEN hms[j] = ":" ELSE hms[j] \in DigitSet

\* Nothing, or (+|-)HH:MM
IsoTzOk(tz) ==
  \/ Len(tz) = 0
  \/ /\ Len(tz) = 6 /\ tz[4] = ":"
     /\ \A j \in {2, 3, 5, 6} : tz[j] \in DigitSet
     /\ Num2(tz, 2) \in 0..23 /\ Num2(tz, 5) \in 0..59

\* The offset in minutes
IsoOffset(tz) ==
  IF Len(tz) = 0 THEN 0
  ELSE (IF tz[1] = "-" THEN -1 ELSE 1) * (60 * Num2(tz, 2) + Num2(tz, 5))

\* The datetime of date text s with time hms and offset tz
IsoDateTime(s, hms, tz) ==
  IF IsoHmsOk(hms) /\ IsoTzOk(tz)
  THEN MakeDateTime(Num4(s, 1), Num2(s, 6), Num2(s, 9),
                    Num2(hms, 1),
                    IF Len(hms) >= 5 THEN Num2(hms, 4) ELSE 0,
                    IF Len(hms) >= 8 THEN Num2(hms, 7) ELSE 0,
                    Len(tz) > 0, IsoOffset(tz))
  ELSE None

\* t is the text after the date and the one-character separator
IsoWithTime(s, t) ==
  IsoDateTime(s, SubSeq(t, 1, IsoCut(t) - 1), SubSeq(t, IsoCut(t), Len(t)))

\* datetime.fromisoformat(s), None for ValueError
fromisoformat(s) ==
  IF ~ IsoDateOk(s) THEN None
  ELSE IF Len(s) = 10
  THEN MakeDateTime(Num4(s, 1), Num2(s, 6), Num2(s, 9), 0, 0, 0, FALSE, 0)
  ELSE IsoWithTime(s, SubSeq(s, 12, Len(s)))

\* The first format of DATE_FORMATS, from the k-th on, that parses s; then
\* the ISO fallback.  dt is the result of the k-th format.
RECURSIVE TryFormats(_, _)
RECURSIVE TryNext(_, _, _)
TryNext(s, k, dt) == IF dt.some THEN dt ELSE TryFormats(s, k + 1)

TryFormats(s, k) ==
  IF k > Len(DATE_FORMATS) THEN fromisoformat(s)
  ELSE TryNext(s, k, strptime(s, DATE_FORMATS[k]))

\* Lines 63-74 on the stripped text
ParseStripped(s) == IF Len(s) = 0 THEN None ELSE TryFormats(s, 1)

parse_date(text) == ParseStripped(str_strip(text))

(***************************************************************************)
(* dt.strftime("%Y-%m-%d %H:%M:%S")                                        *)
(***************************************************************************)
\* Decimal digits of n >= 0, without padding
RECURSIVE Decimal(_)
Decimal(n) ==
  IF n < 10 THEN << DigitChars[n + 1] >>
  ELSE Decimal(n \div 10) \o << DigitChars[(n % 10) + 1] >>

\* Two digits, zero-padded
Pad2(n) == << DigitChars[(n \div 10) + 1], DigitChars[(n % 10) + 1] >>

\* c is <<year, month, day>>.  %Y is the year's decimal digits (four for
\* every year from 1000 on).
FormatFields(c, secs) ==
  Decimal(c[1]) \o <<"-">> \o Pad2(c[2]) \o <<"-">> \o Pad2(c[3]) \o <<" ">> \o
  Pad2(secs \div 3600) \o <<":">> \o Pad2((secs % 3600) \div 60) \o <<":">> \o
  Pad2(secs % 60)

\* The local fields; the offset of an aware datetime is not printed
strftime(dt) == FormatFields(CivilFromDays(dt.days), dt.secs)

(***************************************************************************)
(* re.search for the custom exclusion patterns.  The modelled patterns are *)
(* those built from literal characters, "." (any character), "^" (start of *)
(* the text) and grouping parentheses; quantifiers, classes and            *)
(* alternation are outside this subset.                                    *)
(***************************************************************************)
\* The nesting depth after each prefix of the pattern
RECURSIVE ParenDepth(_, _)
ParenDepth(p, n) ==
  IF n = 0 THEN 0
  ELSE ParenDepth(p, n - 1) + (IF p[n] = "(" THEN 1 ELSE IF p[n] = ")" THEN -1 ELSE 0)

\* re.compile(p) raises re.error: a ")" that closes nothing, or a "(" that
\* is never closed
re_error(p) ==
  \/ \E n \in 1..Len(p) : ParenDepth(p, n) < 0
  \/ ParenDepth(p, Len(p)) # 0

NotParen(c) == c \notin {"(", ")"}

\* The atoms a[k..] match s from position i on
RECURSIVE AtomsMatch(_, _, _, _)
AtomsMatch(a, k, s, i) ==
  IF k > Len(a) THEN TRUE
  ELSE IF a[k] = "^" THEN i = 1 /\ AtomsMatch(a, k + 1, s, i)
  ELSE /\ i <= Len(s)
       /\ (a[k] = "." \/ a[k] = s[i])
       /\ AtomsMatch(a, k + 1, s, i + 1)

\* re.search(p, s) is not None, for a pattern that compiles
re_search(p, s) ==
  LET a == SelectSeq(p, NotParen)
  IN  \E i \in 1..(Len(s) + 1) : AtomsMatch(a, 1, s, i)

DATE_CANDIDATES ==
  << <<"S","e","n","t">>,
     <<"E","n","v","i","a","d","o">>,
     <<"F","e","c","h","a">>,
     <<"D","a","t","e">>,
     <<"F","e","c","h","a"," ","d","e"," ","e","n","v","í","o">>,
     <<"S","e","n","t"," ","O","n">>,
     <<"D","a","t","e"," ","S","e","n","t">>,
     <<"E","n","v","i","a","d","o","s"," ","e","l">>,
     <<"F","e","c","h","a"," ","d","e"," ","e","n","v","í","o",":">> >>

S_ninguna == <<"(","n","i","n","g","u","n","a",")">>

Col_Subject == <<"S","u","b","j","e","c","t">>

Col_Asunto == <<"A","s","u","n","t","o">>

Col_From == <<"F","r","o","m">>

Col_To == <<"T","o">>

Col_Sent == <<"S","e","n","t">>
(***************************************************************************)
(* State                                                                   *)
(***************************************************************************)
VARIABLES
  months,          \* sidebar slider (line 164)
  use_role,        \* sidebar toggle (line 170)
  custom_list,     \* sidebar text area, raw text (line 172)
  use_regex,       \* sidebar toggle (line 177)
  df_columns,      \* df.columns, in file order (line 185)
  df,              \* the rows of the CSV: functions column -> cell text
  date_col,        \* the selectbox value (line 197)
  pc,              \* where the script is
  idx,             \* number of rows the loop has processed
  records,         \* dict email -> record, as the sequence of its values in
                   \* insertion order
  cols_by_email,   \* defaultdict(set)
  excluded_rows,   \* list of exclusion records
  now,             \* datetime.now() read at line 279
  cutoff,
  contacts,        \* list of finished contact rows
  df_contacts,     \* pd.DataFrame(contacts)
  df_excluded,     \* pd.DataFrame(excluded_rows)
  agg,             \* company aggregates, in insertion order of their keys
  rows_company,
  df_companies,
  kpis,            \* the five metrics (lines 325-330)
  exc              \* the uncaught exception that ended the script, or ""

vars ==
  << months, use_role, custom_list, use_regex, df_columns, df, date_col, pc, idx,
     records, cols_by_email, excluded_rows, now, cutoff, contacts, df_contacts,
     df_excluded, agg, rows_company, df_companies, kpis, exc >>

(***************************************************************************)
(* Exclusion filter (lines 205-222)                                        *)
(***************************************************************************)
\* set([p.strip().lower() for p in DEFAULT_ROLE_PREFIXES])
RolePrefixSet ==
  { str_lower(str_strip(DEFAULT_ROLE_PREFIXES[i])) : i \in DOMAIN DEFAULT_ROLE_PREFIXES }

\* ... if use_role else set()
role_prefixes == IF use_role THEN RolePrefixSet ELSE {}

NonBlank(line) == Len(str_strip(line)) > 0

StripLower(line) == str_lower(str_strip(line))

\* [line.strip().lower() for line in custom_list.splitlines() if line.strip()]
CustomPrefixesOf(text) ==
  LET lines == SelectSeq(str_split(text, "\n"), NonBlank)
  IN  [i \in 1..Len(lines) |-> StripLower(lines[i])]

custom_prefixes == CustomPrefixesOf(custom_list)

\* lp == pref or lp.startswith(pref + "+") or lp.startswith(pref + ".")
PrefixMatch(lp, pref) ==
  \/ lp = pref
  \/ str_startswith(lp, pref \o <<"+">>)
  \/ str_startswith(lp, pref \o <<".">>)

LiteralAny(lp, prefs) == \E i \in DOMAIN prefs : PrefixMatch(lp, prefs[i])

\* any(re.search(patt, lp) for patt in custom_prefixes) inside try/except
\* re.error: the generator compiles and applies the patterns one at a time,
\* in order.  It stops with True at the first pattern that matches; a
\* pattern that does not compile raises when it is reached, and the handler
\* then answers with the literal match over the whole list.
RECURSIVE RegexAnyFrom(_, _, _)
RegexAnyFrom(lp, prefs, k) ==
  IF k > Len(prefs) THEN FALSE
  ELSE IF re_error(prefs[k]) THEN LiteralAny(lp, prefs)
  ELSE IF re_search(prefs[k], lp) THEN TRUE
  ELSE RegexAnyFrom(lp, prefs, k + 1)

\* The verdict of the custom branch (lines 214-221)
CustomVerdict(lp) ==
  IF use_regex THEN RegexAnyFrom(lp, custom_prefixes, 1)
  ELSE LiteralAny(lp, custom_prefixes)

\* The verdict of the role branch (line 211)
RoleVerdict(lp) ==
  role_prefixes # {} /\ \E pref \in role_prefixes : PrefixMatch(lp, pref)

is_excluded_local(local_part) ==
  LET lp == str_lower(local_part)
  IN  IF RoleVerdict(lp) THEN TRUE
      ELSE IF Len(custom_prefixes) > 0 THEN CustomVerdict(lp)
      ELSE FALSE

(***************************************************************************)
(* Inputs: the uploaded CSV and the sidebar values                          *)
(***************************************************************************)
\* Largest number of rows of the uploaded CSV
MaxRows == 2

\* the row of the specification's scenario
RowScenario ==
  (Col_To :> <<"M","a","r","i","a",".","P","e","r","e","z","@","a","c","m","e","-","c","o","r","p",".","c","o","m",".","m","x">>) @@
  (Col_Sent :> <<"2","0","2","4","-","0","1","-","1","5"," ","1","0",":","0","0",":","0","0">>)

\* two addresses in two columns, one of them a role account; no date
RowNoDate ==
  (Col_From :> <<"j","u","a","n","@","s","t","a","r","t","u","p",".","i","o">>) @@
  (Col_To :> <<"v","e","n","t","a","s","@","a","c","m","e",".","c","o","m">>) @@
  (Col_Subject :> <<"s","1">>) @@
  (Col_Sent :> <<>>)

\* two addresses in one cell, upper case; ISO date only
RowCutoff ==
  (Col_From :> <<>>) @@
  (Col_To :> <<"J","U","A","N","@","s","t","a","r","t","u","p",".","i","o",";"," ","a","n","a","@","s","t","a","r","t","u","p",".","i","o">>) @@
  (Col_Subject :> <<"s","2">>) @@
  (Col_Sent :> <<"2","0","2","3","-","1","2","-","0","4">>)

\* the same instant as RowCutoff, written month/day/year
RowTie ==
  (Col_From :> <<"j","u","a","n","@","s","t","a","r","t","u","p",".","i","o">>) @@
  (Col_To :> <<>>) @@
  (Col_Subject :> <<"s","3">>) @@
  (Col_Sent :> <<"1","2","/","0","4","/","2","0","2","3"," ","0","0",":","0","0">>)

\* a later message, with the role account
RowLate ==
  (Col_From :> <<"j","u","a","n","@","s","t","a","r","t","u","p",".","i","o">>) @@
  (Col_To :> <<"v","e","n","t","a","s","@","a","c","m","e",".","c","o","m">>) @@
  (Col_Subject :> <<"s","4">>) @@
  (Col_Sent :> <<"2","0","2","4","-","0","5","-","2","0"," ","0","8",":","3","0",":","0","0">>)

\* a timestamp with a UTC offset, which only fromisoformat parses
RowAware ==
  (Col_From :> <<"j","u","a","n","@","s","t","a","r","t","u","p",".","i","o">>) @@
  (Col_To :> <<>>) @@
  (Col_Subject :> <<"s","5">>) @@
  (Col_Sent :> <<"2","0","2","4","-","0","1","-","1","5","T","1","0",":","0","0",":","0","0","+","0","0",":","0","0">>)

RowPool == { RowScenario, RowNoDate, RowCutoff, RowTie, RowLate, RowAware }

\* The header rows of the CSV files of the model
ColumnLayouts == { << Col_To, Col_Sent >>, << Col_From, Col_To, Col_Subject, Col_Sent >> }

\* The tables read_csv can return for a header: up to MaxRows rows of the
\* pool that have exactly the header's columns
TablesOf(cols) ==
  LET rs == { r \in RowPool : DOMAIN r = Range(cols) }
  IN  UNION { [1..n -> rs] : n \in 0..MaxRows }

\* Values of the slider (1..18 in the program)
MonthsPool == { 1, 6 }

\* Settings of the three exclusion widgets: the defaults; everything off; a
\* literal custom prefix beside the role list; a pattern that matches inside
\* "juan" followed by one that does not compile; the same two, reversed
FilterPool ==
  { [ use_role |-> TRUE,  custom_list |-> << >>, use_regex |-> FALSE ],
    [ use_role |-> FALSE, custom_list |-> << >>, use_regex |-> FALSE ],
    [ use_role |-> TRUE,  custom_list |-> <<" ","A","n","a","\n">>, use_regex |-> FALSE ],
    [ use_role |-> FALSE, custom_list |-> <<"u","a","\n","(">>, use_regex |-> TRUE ],
    [ use_role |-> FALSE, custom_list |-> <<"(","\n","u","a">>, use_regex |-> TRUE ] }

\* Values datetime.now() returns at line 279: 2024-06-01 00:00:00
NowPool == { MakeDateTime(2024, 6, 1, 0, 0, 0, FALSE, 0) }

(***************************************************************************)
(* Date column detection (lines 190-202)                                   *)
(***************************************************************************)
\* lower_cols = {c.lower(): c for c in df.columns}: a later column replaces
\* an earlier one with the same lower-cased name
LowerColsHas(cols, key) == \E i \in DOMAIN cols : str_lower(cols[i]) = key

LowerColsGet(cols, key) ==
  cols[SetMax({ i \in DOMAIN cols : str_lower(cols[i]) = key })]

\* auto_date: the column of the first candidate found, or << >> for None
CandidateHits(cols) ==
  { k \in DOMAIN DATE_CANDIDATES : LowerColsHas(cols, str_lower(DATE_CANDIDATES[k])) }

AutoDateOf(cols, hit) ==
  IF hit = {} THEN << >>
  ELSE LowerColsGet(cols, str_lower(DATE_CANDIDATES[SetMin(hit)]))

AutoDate(cols) == AutoDateOf(cols, CandidateHits(cols))

\* The selectbox values the model lets the user end with: the preselected
\* one (the detected date column, else "(ninguna)") or "(ninguna)"
SelectboxChoices(cols) == { S_ninguna } \cup ({ AutoDate(cols) } \ { << >> })

\* use_date = None if date_col == "(ninguna)" else date_col
UseDate == date_col # S_ninguna

(***************************************************************************)
(* The row loop (lines 230-276)                                            *)
(***************************************************************************)
\* row.get(col, "")
RowGet(row, col) == IF col \in DOMAIN row THEN row[col] ELSE << >>

\* row.get("Subject", "") or row.get("Asunto", "") or ""
SubjectOf(row) ==
  IF Len(RowGet(row, Col_Subject)) > 0 THEN RowGet(row, Col_Subject)
  ELSE IF Len(RowGet(row, Col_Asunto)) > 0 THEN RowGet(row, Col_Asunto)
  ELSE << >>

\* parse_date(row[use_date]) if use_date else None
SentOf(row) == IF UseDate THEN parse_date(row[date_col]) ELSE None

\* harvest_emails_from_row(row): the addresses of all cells, and the columns
\* in which any address was found
harvest_emails_from_row(row) ==
  [ emails |-> UNION { FindEmails(row[c]) : c \in DOMAIN row },
    cols   |-> { c \in DOMAIN row : FindEmails(row[c]) # {} } ]

LeastName(S) == CHOOSE x \in S : \A y \in S : x = y \/ StrLess(x, y)

\* sorted(names): ascending by code point
RECURSIVE SortedNames(_)
SortedNames(S) ==
  IF S = {} THEN << >>
  ELSE << LeastName(S) >> \o SortedNames(S \ { LeastName(S) })

\* ";".join(names)
RECURSIVE JoinSemicolon(_)
JoinSemicolon(names) ==
  IF Len(names) = 0 THEN << >>
  ELSE IF Len(names) = 1 THEN names[1]
  ELSE names[1] \o <<";">> \o JoinSemicolon(Tail(names))

\* ";".join(sorted(cols))
ColumnasOrigen(cols) == JoinSemicolon(SortedNames(cols))

\* records.get(em): the position of the record of em, 0 for None
RecordIndex(recs, em) ==
  IF \E k \in DOMAIN recs : recs[k].Email = em
  THEN CHOOSE k \in DOMAIN recs : recs[k].Email = em
  ELSE 0

\* cols_by_email[em] |= set(cols)
AddCols(cbe, em, cols) ==
  [ e \in DOMAIN cbe \cup {em} |->
      IF e = em THEN (IF em \in DOMAIN cbe THEN cbe[em] ELSE {}) \cup cols ELSE cbe[e] ]

\* sent_dt > prev["UltimoEnvio"] is evaluated, with one of the two aware and
\* the other naive: TypeError (line 267)
UpsertRaises(sent_dt, prev_dt) ==
  Truthy(sent_dt) /\ prev_dt.some /\ CompareRaises(sent_dt, prev_dt)

\* Variant of ShouldReplace with the comparison reversed (keeps the earliest)
ShouldReplaceEarlier(sent_dt, prev_dt) ==
  Truthy(sent_dt) /\ (~ prev_dt.some \/ DtGreater(prev_dt, sent_dt))

\* Variant of ShouldReplace without the comparison (the last row wins)
ShouldReplaceAny(sent_dt, prev_dt) == Truthy(sent_dt)

\* Variant of ShouldReplace with >= for > (a tie replaces)
ShouldReplaceOnTie(sent_dt, prev_dt) ==
  Truthy(sent_dt) /\ (~ prev_dt.some \/ DtGreaterEq(sent_dt, prev_dt))

\* sent_dt and (prev["UltimoEnvio"] is None or sent_dt > prev["UltimoEnvio"])
ShouldReplace(sent_dt, prev_dt) ==
  Truthy(sent_dt) /\ (~ prev_dt.some \/ DtGreater(sent_dt, prev_dt))

\* "if not prev[field] and value: prev[field] = value"
Backfill(old, new, empty) == IF old = empty /\ new # empty THEN new ELSE old

\* The merge of a sighting into an existing record (lines 267-275)
MergeRecord(prev, sent_dt, subject, nombre, apellido, pais) ==
  [ prev EXCEPT
      !.UltimoEnvio  = IF ShouldReplace(sent_dt, prev.UltimoEnvio) THEN sent_dt ELSE @,
      !.AsuntoUltimo = IF ShouldReplace(sent_dt, prev.UltimoEnvio) THEN subject ELSE @,
      !.Nombre       = Backfill(@, nombre, << >>),
      !.Apellido     = Backfill(@, apellido, << >>),
      !.Pais         = Backfill(@, pais, "") ]

\* The record of a first sighting (lines 255-264); names is
\* infer_name_parts(local)
NewRecord(em, domain, names, sent_dt, subject) ==
  [ Email        |-> em,
    Nombre       |-> names[1],
    Apellido     |-> names[2],
    Dominio      |-> str_lower(domain),
    Empresa      |-> prettify_company_from_domain(domain),
    Pais         |-> infer_country_from_domain(domain),
    UltimoEnvio  |-> sent_dt,
    AsuntoUltimo |-> subject ]

\* Lines 253-276; k is the position of records.get(em), 0 for None.  st is
\* the loop's state: records, cols_by_email, excluded_rows, and exc, the
\* exception that ended it ("" while it runs).
UpsertAt(st, k, em, domain, names, sent_dt, subject, cols) ==
  IF k = 0
  THEN [ st EXCEPT
           !.records = Append(@, NewRecord(em, domain, names, sent_dt, subject)),
           !.cols_by_email = AddCols(@, em, cols) ]
  ELSE IF UpsertRaises(sent_dt, st.records[k].UltimoEnvio)
  THEN [ st EXCEPT !.exc = "TypeError" ]
  ELSE [ st EXCEPT
           !.records[k] = MergeRecord(@, sent_dt, subject, names[1], names[2],
                                      infer_country_from_domain(domain)),
           !.cols_by_email = AddCols(@, em, cols) ]

\* Lines 250-276 for one address that passed the filter
Upsert(st, em, sent_dt, subject, cols) ==
  UpsertAt(st, RecordIndex(st.records, em), em, EmailDomain(em),
           infer_name_parts(EmailLocal(em)), sent_dt, subject, cols)

\* The exclusion record of lines 242-247; fila is idx + 1
ExclusionRecord(em, fila, cols) ==
  [ Email          |-> em,
    Motivo         |-> "Filtro de exclusión",
    FilaOrigen     |-> fila,
    ColumnasOrigen |-> ColumnasOrigen(cols) ]

\* Variant of ProcessEmail without the "continue" of line 248: an excluded
\* address is recorded as excluded and then merged like any other
ProcessEmailNoContinue(st, em, sent_dt, subject, cols, fila) ==
  IF is_excluded_local(EmailLocal(em))
  THEN Upsert([ st EXCEPT !.excluded_rows = Append(@, ExclusionRecord(em, fila, cols)) ],
              em, sent_dt, subject, cols)
  ELSE Upsert(st, em, sent_dt, subject, cols)

\* The body of "for em in found" (lines 235-276)
ProcessEmail(st, em, sent_dt, subject, cols, fila) ==
  IF is_excluded_local(EmailLocal(em))
  THEN [ st EXCEPT !.excluded_rows = Append(@, ExclusionRecord(em, fila, cols)) ]
  ELSE Upsert(st, em, sent_dt, subject, cols)

\* "for em in found", in the order the set is iterated; an exception ends it
RECURSIVE ProcessFound(_, _, _, _, _, _)
ProcessFound(st, order, sent_dt, subject, cols, fila) ==
  IF Len(order) = 0 \/ st.exc # "" THEN st
  ELSE ProcessFound(ProcessEmail(st, order[1], sent_dt, subject, cols, fila),
                    Tail(order), sent_dt, subject, cols, fila)

\* The orders in which a set can be iterated
Orderings(S) ==
  { o \in [1..Cardinality(S) -> S] : \A i, j \in DOMAIN o : o[i] = o[j] => i = j }

\* One iteration of "for idx, row in df.iterrows()" (lines 231-276); fila is
\* the 1-based row number, order the iteration order of found
ProcessRow(st, row, fila, order) ==
  ProcessFound(st, order, SentOf(row), SubjectOf(row),
               harvest_emails_from_row(row).cols, fila)

LoopStart == [ records |-> << >>, cols_by_email |-> << >>, excluded_rows |-> << >>, exc |-> "" ]

LoopState ==
  [ records |-> records, cols_by_email |-> cols_by_email,
    excluded_rows |-> excluded_rows, exc |-> exc ]

(***************************************************************************)
(* Contacts table (lines 279-295)                                          *)
(***************************************************************************)
S_Reciente == "Cliente reciente"

S_Seguimiento == "Cliente para seguimiento"

\* data["UltimoEnvio"] >= cutoff is evaluated on an aware timestamp while
\* cutoff, from datetime.now(), is naive: TypeError (line 284)
EstadoRaises(ultimo, cut) == Truthy(ultimo) /\ CompareRaises(ultimo, cut)

\* Variant of EstadoCliente with > for >= (the cutoff itself is not recent)
EstadoClienteStrict(ultimo, cut) ==
  IF Truthy(ultimo) /\ DtGreater(ultimo, cut) THEN S_Reciente ELSE S_Seguimiento

\* Lines 283-285
EstadoCliente(ultimo, cut) ==
  IF Truthy(ultimo) /\ DtGreaterEq(ultimo, cut) THEN S_Reciente ELSE S_Seguimiento

\* Lines 282-291 for one record
ContactRow(data, cbe, cut) ==
  [ Email          |-> data.Email,
    Nombre         |-> data.Nombre,
    Apellido       |-> data.Apellido,
    Dominio        |-> data.Dominio,
    Empresa        |-> data.Empresa,
    Pais           |-> data.Pais,
    UltimoEnvio    |-> IF Truthy(data.UltimoEnvio) THEN strftime(data.UltimoEnvio) ELSE << >>,
    EstadoCliente  |-> EstadoCliente(data.UltimoEnvio, cut),
    AsuntoUltimo   |-> data.AsuntoUltimo,
    ColumnasOrigen |-> ColumnasOrigen(cbe[data.Email]) ]

\* now - timedelta(days=30*months)
CutoffOf(n, m) == MinusDays(n, 30 * m)

BuildContacts(recs, cbe, cut) == [ k \in 1..Len(recs) |-> ContactRow(recs[k], cbe, cut) ]

\* pd.DataFrame(list of dicts): the columns are the keys of the dicts, and
\* there are none when the list is empty
DataFrame(rows) ==
  [ columns |-> IF Len(rows) = 0 THEN {} ELSE DOMAIN rows[1], rows |-> rows ]

(***************************************************************************)
(* Company rollup (lines 298-322)                                          *)
(***************************************************************************)
AggIndex(a, empresa, dominio) ==
  IF \E k \in DOMAIN a : a[k].Empresa = empresa /\ a[k].Dominio = dominio
  THEN CHOOSE k \in DOMAIN a : a[k].Empresa = empresa /\ a[k].Dominio = dominio
  ELSE 0

\* The defaultdict's fresh value, with the key's two parts set
AggFresh(empresa, dominio) ==
  [ Dominio |-> dominio, Empresa |-> empresa, Pais |-> "", ContactosUnicos |-> {},
    TotalEmails |-> 0, UltimoEnvio |-> None ]

\* Lines 302-312 on the aggregate d of the row's key
AggMerge(d, row, dt) ==
  [ d EXCEPT
      !.Pais            = Backfill(@, row.Pais, ""),
      !.TotalEmails     = @ + 1,
      !.ContactosUnicos = @ \cup { row.Email },
      !.UltimoEnvio     = IF ShouldReplace(dt, @) THEN dt ELSE @ ]

\* dt is parsed only from a non-empty text (lines 309-310)
AggUpdate(d, row) ==
  AggMerge(d, row, IF Len(row.UltimoEnvio) > 0 THEN parse_date(row.UltimoEnvio) ELSE None)

\* "for row in contacts" from the k-th contact on
\* d = agg[key] and its update; i is the position of the key, 0 when the
\* defaultdict has to create it
AggPut(a, i, row) ==
  IF i = 0 THEN Append(a, AggUpdate(AggFresh(row.Empresa, row.Dominio), row))
  ELSE [ a EXCEPT ![i] = AggUpdate(@, row) ]

RECURSIVE Rollup(_, _, _)
Rollup(a, cs, k) ==
  IF k > Len(cs) THEN a
  ELSE Rollup(AggPut(a, AggIndex(a, cs[k].Empresa, cs[k].Dominio), cs[k]), cs, k + 1)

\* Lines 316-321
CompanyRow(d) ==
  [ Empresa         |-> d.Empresa,
    Dominio         |-> d.Dominio,
    Pais            |-> d.Pais,
    ContactosUnicos |-> Cardinality(d.ContactosUnicos),
    TotalEmails     |-> d.TotalEmails,
    UltimoEnvio     |-> IF Truthy(d.UltimoEnvio) THEN strftime(d.UltimoEnvio) ELSE << >> ]

\* Lines 314-321: one row per aggregate, in the dict's order
CompanyRows(a) == [ k \in 1..Len(a) |-> CompanyRow(a[k]) ]

\* (Empresa, Dominio) of x sorts before that of y
CompanyBefore(x, y) ==
  StrLess(x.Empresa, y.Empresa) \/ (x.Empresa = y.Empresa /\ StrLess(x.Dominio, y.Dominio))

\* Insert row x into the sorted sequence s, after the rows whose key is not
\* greater (stable)
RECURSIVE InsertSorted(_, _)
InsertSorted(s, x) ==
  IF Len(s) = 0 THEN << x >>
  ELSE IF CompanyBefore(x, s[1]) THEN << x >> \o s
  ELSE << s[1] >> \o InsertSorted(Tail(s), x)

RECURSIVE SortRows(_, _)
SortRows(rows, n) == IF n = 0 THEN << >> ELSE InsertSorted(SortRows(rows, n - 1), rows[n])

\* .sort_values(["Empresa","Dominio"]) raises KeyError on a frame that has
\* no such column
SortRaises(frame) == ~ ({"Empresa", "Dominio"} \subseteq frame.columns)

sort_values(frame) == [ frame EXCEPT !.rows = SortRows(@, Len(@)) ]

(***************************************************************************)
(* The script, top to bottom                                               *)
(***************************************************************************)
NoFrame == [ columns |-> {}, rows |-> << >> ]

NoKpis == [ contactos |-> 0, recientes |-> 0, seguimiento |-> 0, empresas |-> 0, excluidos |-> 0 ]

\* The state when the row loop is about to start: the sidebar is set, the
\* file is read and the date column is chosen (lines 163-228)
Init ==
  /\ months \in MonthsPool
  /\ \E f \in FilterPool :
       /\ use_role = f.use_role
       /\ custom_list = f.custom_list
       /\ use_regex = f.use_regex
  /\ df_columns \in ColumnLayouts
  /\ df \in TablesOf(df_columns)
  /\ date_col \in SelectboxChoices(df_columns)
  /\ pc = "loop"
  /\ idx = 0
  /\ records = << >>
  /\ cols_by_email = << >>
  /\ excluded_rows = << >>
  /\ now = None
  /\ cutoff = None
  /\ contacts = << >>
  /\ df_contacts = NoFrame
  /\ df_excluded = NoFrame
  /\ agg = << >>
  /\ rows_company = << >>
  /\ df_companies = NoFrame
  /\ kpis = NoKpis
  /\ exc = ""

Inputs == << months, use_role, custom_list, use_regex, df_columns, df, date_col >>

AfterLoop == << now, cutoff, contacts, df_contacts, df_excluded >>

AfterContacts == << agg, rows_company, df_companies >>

\* One iteration of the row loop (lines 230-276)
RowStep ==
  /\ pc = "loop"
  /\ idx < Len(df)
  /\ \E order \in Orderings(harvest_emails_from_row(df[idx + 1]).emails) :
       \E st \in { ProcessRow(LoopState, df[idx + 1], idx + 1, order) } :
         /\ records' = st.records
         /\ cols_by_email' = st.cols_by_email
         /\ excluded_rows' = st.excluded_rows
         /\ exc' = st.exc
         /\ pc' = IF st.exc # "" THEN "error" ELSE "loop"
  /\ idx' = idx + 1
  /\ UNCHANGED << Inputs, AfterLoop, AfterContacts, kpis >>

\* Lines 279-295: cutoff, the contact rows, the two data frames
BuildTables ==
  /\ pc = "loop"
  /\ idx = Len(df)
  /\ \E n \in NowPool :
       \E cut \in { CutoffOf(n, months) } :
         /\ now' = n
         /\ cutoff' = cut
         /\ IF \E k \in DOMAIN records : EstadoRaises(records[k].UltimoEnvio, cut)
            THEN /\ pc' = "error"
                 /\ exc' = "TypeError"
                 /\ UNCHANGED << contacts, df_contacts, df_excluded >>
            ELSE /\ pc' = "rollup"
                 /\ exc' = exc
                 /\ contacts' = BuildContacts(records, cols_by_email, cut)
                 /\ df_contacts' = DataFrame(contacts')
                 /\ df_excluded' = DataFrame(excluded_rows)
  /\ UNCHANGED << Inputs, idx, records, cols_by_email, excluded_rows, AfterContacts, kpis >>

\* Lines 298-322: the aggregates, their rows, the sorted frame
CompanyRollup ==
  /\ pc = "rollup"
  /\ agg' = Rollup(<< >>, contacts, 1)
  /\ rows_company' = CompanyRows(agg')
  /\ IF SortRaises(DataFrame(rows_company'))
     THEN /\ pc' = "error"
          /\ exc' = "KeyError"
          /\ UNCHANGED df_companies
     ELSE /\ pc' = "kpis"
          /\ exc' = exc
          /\ df_companies' = sort_values(DataFrame(rows_company'))
  /\ UNCHANGED << Inputs, idx, records, cols_by_email, excluded_rows, AfterLoop, kpis >>

\* df[col] raises KeyError on a frame without that column
ColumnRaises(frame, col) == col \notin frame.columns

CountEstado(frame, estado) ==
  Cardinality({ k \in DOMAIN frame.rows : frame.rows[k].EstadoCliente = estado })

\* Lines 325-330
Kpis ==
  /\ pc = "kpis"
  /\ IF ColumnRaises(df_contacts, "EstadoCliente")
     THEN /\ pc' = "error"
          /\ exc' = "KeyError"
          /\ UNCHANGED kpis
     ELSE /\ pc' = "done"
          /\ exc' = exc
          /\ kpis' = [ contactos   |-> Len(df_contacts.rows),
                       recientes   |-> CountEstado(df_contacts, S_Reciente),
                       seguimiento |-> CountEstado(df_contacts, S_Seguimiento),
                       empresas    |-> IF Len(df_companies.rows) > 0
                                       THEN Cardinality({ df_companies.rows[k].Empresa :
                                                            k \in DOMAIN df_companies.rows })
                                       ELSE 0,
                       excluidos   |-> Len(df_excluded.rows) ]
  /\ UNCHANGED << Inputs, idx, records, cols_by_email, excluded_rows, AfterLoop, AfterContacts >>

Next == RowStep \/ BuildTables \/ CompanyRollup \/ Kpis

Spec == Init /\ [][Next]_vars

(***************************************************************************)
(* Properties                                                              *)
(***************************************************************************)
\* The contact rows are built
Finalized == pc \in {"rollup", "kpis", "done"}

\* The addresses harvested from row i
FoundIn(i) == harvest_emails_from_row(df[i]).emails

\* The filter's verdict on an address
Excluded(em) == is_excluded_local(EmailLocal(em))

\* The rows in which address em is sighted
SightingsOf(em) == { i \in 1..Len(df) : em \in FoundIn(i) }

\* The parsed timestamp of row i
StampOf(i) == SentOf(df[i])

\* Instant a is not before instant b, on the local fields
NotBefore(a, b) == a.days > b.days \/ (a.days = b.days /\ a.secs >= b.secs)

\* rec carries the latest timestamp of the rows, and the subject of a row
\* that bears it; no timestamp when none of the rows has one
LastIsMaxOf(rec, rows) ==
  IF \A i \in rows : ~ StampOf(i).some
  THEN ~ rec.UltimoEnvio.some
  ELSE /\ rec.UltimoEnvio.some
       /\ \E i \in rows : /\ StampOf(i) = rec.UltimoEnvio
                           /\ SubjectOf(df[i]) = rec.AsuntoUltimo
       /\ \A i \in rows : StampOf(i).some => NotBefore(rec.UltimoEnvio, StampOf(i))

\* The row loop has just ended
LoopEnd == pc = "loop" /\ idx = Len(df)

\* C1: when the loop has processed every row, each sighted address that the
\* filter lets through has a record, and each record's UltimoEnvio is the
\* maximum of the parsed timestamps of its sightings and its AsuntoUltimo
\* the subject of a row bearing that maximum (rows without a parseable
\* timestamp neither lower nor clear it); the contact row built from the
\* record carries that subject and a text that reads back as that timestamp.
LastSentIsMax ==
  /\ LoopEnd =>
       /\ \A i \in 1..Len(df) : \A em \in FoundIn(i) :
            ~ Excluded(em) => RecordIndex(records, em) # 0
       /\ \A k \in DOMAIN records :
            LastIsMaxOf(records[k], SightingsOf(records[k].Email))
  /\ Finalized =>
       \A k \in DOMAIN contacts :
         /\ contacts[k].Email = records[k].Email
         /\ contacts[k].AsuntoUltimo = records[k].AsuntoUltimo
         /\ IF records[k].UltimoEnvio.some
            THEN parse_date(contacts[k].UltimoEnvio) = records[k].UltimoEnvio
            ELSE contacts[k].UltimoEnvio = << >>

\* An address sighted in two rows, the later timestamp in the first of
\* them, and in a row without timestamp
LastSentIsMaxWitness ==
  /\ LoopEnd /\ Len(df) = 2 /\ UseDate
  /\ \E k \in DOMAIN records :
       /\ SightingsOf(records[k].Email) = {1, 2}
       /\ StampOf(1).some /\ StampOf(2).some
       /\ StampOf(1) # StampOf(2)
       /\ NotBefore(StampOf(1), StampOf(2))
       /\ records[k].UltimoEnvio = StampOf(1)

\* C8: a finished contact is "Cliente reciente" exactly when it has a
\* timestamp that is not before cutoff = now - 30*months days (the cutoff
\* itself is recent); without timestamp it is "Cliente para seguimiento";
\* with no date column every contact has an empty UltimoEnvio and is
\* "Cliente para seguimiento".
RecentIffNotBeforeCutoff ==
  Finalized =>
    /\ cutoff.days = now.days - 30 * months /\ cutoff.secs = now.secs
    /\ Len(contacts) = Len(records)
    /\ \A k \in DOMAIN contacts :
         /\ contacts[k].EstadoCliente \in {S_Reciente, S_Seguimiento}
         /\ contacts[k].EstadoCliente = S_Reciente
               <=> (records[k].UltimoEnvio.some /\ NotBefore(records[k].UltimoEnvio, cutoff))
         /\ ~ UseDate =>
               contacts[k].UltimoEnvio = << >> /\ contacts[k].EstadoCliente = S_Seguimiento

\* A contact whose timestamp is exactly the cutoff, classified recent
RecentAtCutoffWitness ==
  /\ Finalized
  /\ \E k \in DOMAIN contacts :
       /\ records[k].UltimoEnvio.some
       /\ records[k].UltimoEnvio.days = cutoff.days
       /\ records[k].UltimoEnvio.secs = cutoff.secs
       /\ contacts[k].EstadoCliente = S_Reciente

\* What one step may do to the record at position k
RecordStep(old, new) ==
  /\ new.Email = old.Email /\ new.Dominio = old.Dominio /\ new.Empresa = old.Empresa
  /\ old.UltimoEnvio.some => new.UltimoEnvio.some
  /\ new.UltimoEnvio # old.UltimoEnvio =>
       (~ old.UltimoEnvio.some \/
          (NotBefore(new.UltimoEnvio, old.UltimoEnvio)
             /\ ~ NotBefore(old.UltimoEnvio, new.UltimoEnvio)))
  /\ new.AsuntoUltimo # old.AsuntoUltimo => new.UltimoEnvio # old.UltimoEnvio
  /\ old.Nombre # << >> => new.Nombre = old.Nombre
  /\ old.Apellido # << >> => new.Apellido = old.Apellido
  /\ old.Pais # "" => new.Pais = old.Pais

\* C10: in every step, each record already in the table stays at its key
\* with the same Dominio and Empresa; UltimoEnvio is never cleared and
\* changes only to a strictly later timestamp or from none to one;
\* AsuntoUltimo changes only together with UltimoEnvio; Nombre, Apellido
\* and Pais do not change once non-empty.
RecordsOnlyAdvance ==
  [][ \A k \in DOMAIN records :
        k \in DOMAIN records' /\ RecordStep(records[k], records'[k]) ]_vars

\* A record that the second row moved to a later timestamp
RecordAdvancedWitness ==
  /\ idx = 2 /\ UseDate
  /\ \E k \in DOMAIN records :
       /\ SightingsOf(records[k].Email) = {1, 2}
       /\ StampOf(1).some /\ StampOf(2).some
       /\ ~ NotBefore(StampOf(1), StampOf(2))
       /\ records[k].UltimoEnvio = StampOf(2)
       /\ records[k].AsuntoUltimo = SubjectOf(df[2])

\* The contacts of the group of company row r
MembersOf(r) ==
  { k \in DOMAIN contacts :
      contacts[k].Empresa = r.Empresa /\ contacts[k].Dominio = r.Dominio }

\* The (row, address) sightings of a set of contacts
SightingsOfMembers(ks) ==
  { s \in (1..Len(df)) \X { contacts[k].Email : k \in ks } : s[2] \in FoundIn(s[1]) }

\* Company row r is made of its member contacts only
FromMembersOnly(r) ==
  /\ MembersOf(r) # {}
  /\ r.ContactosUnicos = Cardinality({ contacts[k].Email : k \in MembersOf(r) })
  /\ r.TotalEmails <= Cardinality(SightingsOfMembers(MembersOf(r)))
  /\ r.UltimoEnvio \in { << >> } \cup { contacts[k].UltimoEnvio : k \in MembersOf(r) }
  /\ r.Pais \in { "" } \cup { contacts[k].Pais : k \in MembersOf(r) }

\* C2: an address that the exclusion filter matches has an Excluded record
\* for every processed row in which it was harvested, is never a key of the
\* contact table, and no company row counts it or takes its timestamp or
\* country: every company row is made of its member contacts only.
ExcludedNeverContact ==
  pc # "error" =>
    /\ \A i \in 1..idx : \A em \in FoundIn(i) :
         Excluded(em) =>
           /\ \E k \in DOMAIN excluded_rows :
                excluded_rows[k].Email = em /\ excluded_rows[k].FilaOrigen = i
           /\ RecordIndex(records, em) = 0
           /\ \A k \in DOMAIN df_contacts.rows : df_contacts.rows[k].Email # em
           /\ \A k \in DOMAIN agg : em \notin agg[k].ContactosUnicos
    /\ \A k \in DOMAIN df_companies.rows : FromMembersOnly(df_companies.rows[k])

\* A finished run in which an excluded address shares its domain with a
\* contact and was sighted with a timestamp
ExcludedNeverContactWitness ==
  /\ pc = "done" /\ UseDate
  /\ \E i \in 1..Len(df) : \E em \in FoundIn(i) :
       /\ Excluded(em)
       /\ StampOf(i).some
       /\ \E k \in DOMAIN contacts : contacts[k].Dominio = str_lower(EmailDomain(em))
       /\ \E k \in DOMAIN df_excluded.rows : df_excluded.rows[k].Email = em

\* The states in which one iteration of the row loop, on the given row as
\* row number fila, can leave the states S
\* The states in which "for em in found" (lines 234-276) can leave the
\* states S, in any iteration order of found; sent_dt, subject and found
\* are the values lines 231-233 computed for the row
HarvestedStates(S, fila, sent_dt, subject, found) ==
  { ProcessFound(st, order, sent_dt, subject, found.cols, fila) :
      st \in S, order \in Orderings(found.emails) }

RowStates(S, row, fila) ==
  HarvestedStates(S, fila, SentOf(row), SubjectOf(row), harvest_emails_from_row(row))

\* The states in which the iterations on rows a..b of table t can leave the
\* states S; row k is processed as row number k + shift
RECURSIVE RunRows(_, _, _, _, _)
RunRows(t, a, b, shift, S) ==
  IF a > b THEN S
  ELSE RunRows(t, a + 1, b, shift, RowStates(S, t[a], a + shift))

\* The fields of a contact row that a repeated row must leave alone
IdentityOf(c) ==
  [ Email |-> c.Email, Nombre |-> c.Nombre, Apellido |-> c.Apellido,
    Dominio |-> c.Dominio, Empresa |-> c.Empresa, Pais |-> c.Pais,
    UltimoEnvio |-> c.UltimoEnvio, AsuntoUltimo |-> c.AsuntoUltimo,
    EstadoCliente |-> c.EstadoCliente ]

\* The loop ended in st without exception and lines 279-291 give, address
\* by address, the identity fields of the contact rows cs
SameContacts(st, cs) ==
  /\ st.exc = ""
  /\ \A k \in DOMAIN st.records : ~ EstadoRaises(st.records[k].UltimoEnvio, cutoff)
  /\ { IdentityOf(c) : c \in Range(BuildContacts(st.records, st.cols_by_email, cutoff)) }
       = { IdentityOf(c) : c \in Range(cs) }

\* C9: when the contact rows of a table are built, the table with any one
\* of its rows repeated at or after its position gives the same addresses
\* with the same Nombre, Apellido, Dominio, Empresa, Pais, UltimoEnvio,
\* AsuntoUltimo and EstadoCliente.  (The loop is run on rows 1..j, then on
\* row i again as row j + 1, then on the remaining rows, for every i <= j.)
DuplicateRowSameIdentity ==
  pc = "rollup" =>
    \A j \in 1..Len(df) :
      \A upto \in { RunRows(df, 1, j, 0, { LoopStart }) } :
        \A i \in 1..j :
          \A st \in RunRows(df, j + 1, Len(df), 1, RowStates(upto, df[i], j + 1)) :
            SameContacts(st, contacts)

\* Two rows that sight one address at the same instant under different
\* subjects: the repeated first row ties with the stored timestamp
DuplicateRowWitness ==
  /\ pc = "rollup" /\ Len(df) = 2 /\ UseDate
  /\ StampOf(1).some /\ StampOf(1) = StampOf(2)
  /\ SubjectOf(df[1]) # SubjectOf(df[2])
  /\ \E k \in DOMAIN contacts : SightingsOf(contacts[k].Email) = {1, 2}

\* No row yields an address that passes the filter
NoContactInput == \A i \in 1..Len(df) : \A em \in FoundIn(i) : Excluded(em)

\* C3: when the input has no rows, or no row yields a non-excluded address,
\* the script raises nothing and ends with the Contacts and Companies
\* tables empty (and the Excluded table too when there are no rows).
EmptyInputCompletes ==
  NoContactInput =>
    /\ pc # "error"
    /\ pc = "done" =>
         /\ Len(df_contacts.rows) = 0
         /\ Len(df_companies.rows) = 0
         /\ Len(df) = 0 => Len(df_excluded.rows) = 0

\* The columns of row i in whose cell address em is matched
ColumnsOf(i, em) == { c \in DOMAIN df[i] : em \in FindEmails(df[i][c]) }

\* The columns in which em is matched in the rows processed so far
ColumnsSoFar(em) == UNION { ColumnsOf(i, em) : i \in 1..idx }

\* C4: the source columns of a contact are the union, over the rows, of the
\* columns in whose cell that address was matched, and those of an
\* Excluded record are the columns of its row in which its address was
\* matched.
SourceColumnsPerAddress ==
  pc # "error" =>
    /\ \A k \in DOMAIN records :
         cols_by_email[records[k].Email] = ColumnsSoFar(records[k].Email)
    /\ \A k \in DOMAIN contacts :
         contacts[k].ColumnasOrigen = ColumnasOrigen(ColumnsSoFar(contacts[k].Email))
    /\ \A k \in DOMAIN excluded_rows :
         excluded_rows[k].ColumnasOrigen =
           ColumnasOrigen(ColumnsOf(excluded_rows[k].FilaOrigen, excluded_rows[k].Email))

\* C5: with use_regex on and a custom list that holds a pattern that does
\* not compile, a harvested address is excluded exactly when the role list
\* matches its local part or the custom list matches it literally, wherever
\* the invalid pattern stands in the list.
InvalidRegexFallsBack ==
  (/\ pc # "error"
   /\ use_regex
   /\ \E n \in DOMAIN custom_prefixes : re_error(custom_prefixes[n])) =>
    \A i \in 1..idx : \A em \in FoundIn(i) :
      (\E k \in DOMAIN excluded_rows :
         excluded_rows[k].Email = em /\ excluded_rows[k].FilaOrigen = i)
      <=> (\/ RoleVerdict(str_lower(EmailLocal(em)))
           \/ LiteralAny(str_lower(EmailLocal(em)), custom_prefixes))

\* The texts of the scenario
S_Maria == <<"M","a","r","i","a">>

S_Perez == <<"P","e","r","e","z">>

S_AcmeCorp == <<"A","c","m","e"," ","C","o","r","p">>

\* C6: the row {To: Maria.Perez@acme-corp.com.mx, Sent: 2024-01-15
\* 10:00:00} with date column Sent, 6 months and now = 2024-06-01 gives one
\* contact: Maria, Perez, "Acme Corp", México, "Cliente para seguimiento".
ScenarioContact ==
  (/\ pc = "done"
   /\ df = << RowScenario >>
   /\ date_col = Col_Sent
   /\ months = 6
   /\ now = MakeDateTime(2024, 6, 1, 0, 0, 0, FALSE, 0)) =>
    /\ Len(contacts) = 1
    /\ contacts[1].Nombre = S_Maria
    /\ contacts[1].Apellido = S_Perez
    /\ contacts[1].Empresa = S_AcmeCorp
    /\ contacts[1].Pais = "México"
    /\ contacts[1].EstadoCliente = S_Seguimiento

\* C7: in every company row TotalEmails is the number of (row, address)
\* sightings of the group's contacts and ContactosUnicos the number of its
\* distinct addresses.
TotalEmailsCountsSightings ==
  pc = "done" =>
    \A k \in DOMAIN df_companies.rows :
      /\ df_companies.rows[k].TotalEmails =
           Cardinality(SightingsOfMembers(MembersOf(df_companies.rows[k])))
      /\ df_companies.rows[k].ContactosUnicos =
           Cardinality({ contacts[j].Email : j \in MembersOf(df_companies.rows[k]) })

====
